---- MODULE Spec2Model ----
(***************************************************************************)
(* Model of src/app.py, a Streamlit page that lists the approved WhatsApp  *)
(* message templates of a business account and sends one of them to the    *)
(* rows of an uploaded CSV file.                                           *)
(*                                                                         *)
(* Streamlit runs the whole script from top to bottom after every user     *)
(* interaction.  Each action below is therefore one interaction (a widget  *)
(* gets a new value or a button is clicked) followed by one complete run   *)
(* of the script: the fetch handler, the template widgets, the upload      *)
(* handling, the recipient widgets and the send handler, in that order.    *)
(* The variables are the session state, the values held by the widgets,    *)
(* and what the last run did (requests issued, messages reported).         *)
(***************************************************************************)
EXTENDS Integers, Sequences, FiniteSets, TLC

VARIABLES
    api_token,                \* sidebar text input, line 96
    phone_number_id,          \* sidebar text input, line 99
    waba_id,                  \* sidebar text input, line 102
    templates,                \* st.session_state.templates
    selected_template,        \* the script's local; Undefined when the selectbox is not drawn
    template_variables_input, \* text of the text area, a sequence of characters
    uploaded_file,            \* value of the file uploader: NoFile or [name, content]
    uploaded_filename,        \* st.session_state.uploaded_filename; Undefined until set
    df_for_editing,           \* st.session_state.df_for_editing
    phone_col,                \* the script's local; Undefined when the selectbox is not drawn
    editor,                   \* state of the data editor: rows whose Send box is unchecked
    clicked,                  \* the button that triggered the last run: "none", "fetch", "send"
    gets,                     \* HTTP GET requests issued by the last run
    posts,                    \* HTTP POST requests issued by the last run, in order
    reads,                    \* pd.read_csv calls of the last run
    messages,                 \* what the last run reported (st.error, st.warning, ...)
    results,                  \* the send loop's list `results` when the last run ended
    crashed,                  \* the last run ended by an exception nothing caught
    phone_numbers,            \* the list of line 202 in the last run (empty if not reached)
    answers,                  \* what the POSTs of the last run met, in order
    listing                   \* what the template endpoint answered in the last run

vars == << api_token, phone_number_id, waba_id, templates, selected_template,
           template_variables_input, uploaded_file, uploaded_filename,
           df_for_editing, phone_col, editor, clicked, gets, posts, reads,
           messages, results, crashed, phone_numbers, answers, listing >>

-----------------------------------------------------------------------------
(* Bounds of the model. *)

\* Longest text typed into the "Body Variables" text area.
MaxInputLen == 3

\* Longest template list the endpoint returns.
MaxTemplates == 2

\* The data editor's rows whose Send box the user toggles; the short contact
\* file has exactly this many rows, so that all of its rows can be toggled.
EditableRows == 2

\* The network's answers to the POSTs of one run repeat with this period, so
\* every combination of answers happens for runs of up to this many sends.
NetPeriod == 2

\* Rows by which the long contact file exceeds the cap.
RowsOverCap == 1

-----------------------------------------------------------------------------
(* Values *)

Undefined == "<undefined>"

\* The characters typed into the text area: a letter, a blank and a line break.
Chars == {"a", " ", "\n"}
Whitespace == {" ", "\n"}

RECURSIVE SeqsUpTo(_, _)
SeqsUpTo(S, n) ==
    IF n = 0 THEN {<<>>}
    ELSE LET shorter == SeqsUpTo(S, n - 1)
         IN  shorter \cup {Append(s, x) : s \in {t \in shorter : Len(t) = n - 1}, x \in S}

Min(a, b) == IF a < b THEN a ELSE b

-----------------------------------------------------------------------------
(* Python string operations used at line 204 *)

\* str.split('\n'): the pieces between line breaks, empty pieces included.
RECURSIVE SplitFrom(_, _, _)
SplitFrom(s, i, piece) ==
    IF i > Len(s) THEN <<piece>>
    ELSE IF s[i] = "\n" THEN <<piece>> \o SplitFrom(s, i + 1, <<>>)
    ELSE SplitFrom(s, i + 1, Append(piece, s[i]))

Split(s) == SplitFrom(s, 1, <<>>)

RECURSIVE LStrip(_)
LStrip(s) ==
    IF s # <<>> /\ Head(s) \in Whitespace THEN LStrip(Tail(s)) ELSE s

RECURSIVE RStrip(_)
RStrip(s) ==
    IF s # <<>> /\ s[Len(s)] \in Whitespace THEN RStrip(SubSeq(s, 1, Len(s) - 1)) ELSE s

\* A slip: lstrip() for strip().
StripLeftOnly(s) == LStrip(s)

\* str.strip()
Strip(s) == RStrip(LStrip(s))

\* [var.strip() for var in lines if var.strip()]
RECURSIVE StrippedNonEmpty(_)
StrippedNonEmpty(lines) ==
    IF lines = <<>> THEN <<>>
    ELSE (IF Strip(Head(lines)) # <<>> THEN <<Strip(Head(lines))>> ELSE <<>>)
         \o StrippedNonEmpty(Tail(lines))

\* line 204
ParseVariables(text) == StrippedNonEmpty(Split(text))

-----------------------------------------------------------------------------
(* get_message_templates, lines 9-36 *)

PyNone == "<None>"

\* dict.get(key): the value, or None when the key is missing
DictGet(d, key) == IF key \in DOMAIN d THEN d[key] ELSE PyNone

\* What requests.get meets: no response at all (connection, DNS, timeout), a
\* response raise_for_status rejects, or a 2xx response with a JSON body (an
\* object, with or without a "data" list).
NoAnswer == [kind |-> "none", body |-> <<>>]
ListingFailures == {[kind |-> "no_response", body |-> <<>>],
                    [kind |-> "http_error", body |-> <<>>]}

\* A slip: the status compared without regard to case.
IsApprovedAnyCase(t) == DictGet(t, "status") \in {"APPROVED", "approved"}

IsApproved(t) == DictGet(t, "status") = "APPROVED"

\* t['name'] of an approved entry that has no name raises KeyError (line 28)
RaisesKeyError(data) ==
    \E i \in 1..Len(data) : IsApproved(data[i]) /\ "name" \notin DOMAIN data[i]

\* [t['name'] for t in templates if t.get('status') == 'APPROVED']
RECURSIVE ApprovedNames(_)
ApprovedNames(data) ==
    IF data = <<>> THEN <<>>
    ELSE (IF IsApproved(Head(data)) THEN <<Head(data)["name"]>> ELSE <<>>)
         \o ApprovedNames(Tail(data))

\* The value returned and the error reported (None when nothing is).
get_message_templates(answer) ==
    IF answer.kind # "ok"
    THEN [value |-> <<>>, reported |-> "Error fetching templates"]
    ELSE LET data == IF "data" \in DOMAIN answer.body THEN answer.body["data"] ELSE <<>>
         IN  IF RaisesKeyError(data)
             THEN [value |-> <<>>, reported |-> "An unexpected error occurred"]
             ELSE [value |-> ApprovedNames(data), reported |-> PyNone]

-----------------------------------------------------------------------------
(* send_template_message, lines 39-79 *)

\* What requests.post meets.  "no_response": the call raises (connection, DNS,
\* timeout) and `response` is never bound.  Otherwise a response arrives,
\* with a 2xx status or not, with a JSON body or not.
Outcomes == {"ok", "ok_not_json", "http_error", "http_error_not_json", "no_response"}

\* A slip: the body component built whether or not there are variables.
ComponentsAlwaysBody(variables) ==
    << [type |-> "body",
        parameters |-> [i \in 1..Len(variables) |->
                           [type |-> "text", text |-> variables[i]]]] >>

\* lines 59-62
Components(variables) ==
    IF variables # <<>>
    THEN << [type |-> "body",
             parameters |-> [i \in 1..Len(variables) |->
                                [type |-> "text", text |-> variables[i]]]] >>
    ELSE <<>>

\* lines 64-73
Payload(to_phone_number, template_name, variables) ==
    [messaging_product |-> "whatsapp",
     to |-> to_phone_number,
     type |-> "template",
     template |-> [name |-> template_name,
                   language |-> [code |-> "en_US"],
                   components |-> Components(variables)]]

\* The request of line 75.
Request(token, phone_id, to_phone_number, template_name, variables) ==
    [token |-> token, phone_id |-> phone_id,
     data |-> Payload(to_phone_number, template_name, variables)]

\* Lines 74-79.  A 2xx response with a JSON body is returned as a success.
\* A non-2xx response makes raise_for_status raise HTTPError, which line 78
\* catches; line 79 then reads response.json().  With no response, line 79
\* reads the unbound local `response`: UnboundLocalError, which nothing
\* catches.  With a body that is not JSON, response.json() raises at line 77
\* or 79; at line 79 nothing catches it.
SendRaises(outcome) == outcome \in {"ok_not_json", "http_error_not_json", "no_response"}

SendReturns(outcome) ==
    IF outcome = "ok"
    THEN [success |-> TRUE, detail |-> "data"]
    ELSE [success |-> FALSE, detail |-> "HTTPError"]

\* str(number), line 218
Str(number) == ToString(number)

\* send_template_message: the request it issues, whether it raises, and the
\* value it returns when it does not.
send_template_message(token, phone_id, to_phone_number, template_name, variables, outcome) ==
    [request |-> Request(token, phone_id, to_phone_number, template_name, variables),
     raises  |-> SendRaises(outcome),
     value   |-> SendReturns(outcome)]

-----------------------------------------------------------------------------
(* Data frames, column by column as pandas holds them *)

\* pd.DataFrame()
EmptyFrame == [columns |-> <<>>, data |-> <<>>]

NRows(df) == IF df.columns = <<>> THEN 0 ELSE Len(df.data[df.columns[1]])

\* df.empty: no column or no row
IsEmpty(df) == df.columns = <<>> \/ NRows(df) = 0

\* df.insert(0, 'Send', True) raises ValueError when the column exists
InsertRaises(df) == \E i \in 1..Len(df.columns) : df.columns[i] = "Send"

InsertSend(df) ==
    [columns |-> <<"Send">> \o df.columns,
     data |-> [c \in {"Send"} \cup DOMAIN df.data |->
                  IF c = "Send" THEN [i \in 1..NRows(df) |-> TRUE] ELSE df.data[c]]]

\* st.data_editor: the frame it is given with the user's edits applied
data_editor(df, unchecked) ==
    [df EXCEPT !.data["Send"] = [i \in 1..NRows(df) |-> df.data["Send"][i] /\ i \notin unchecked]]

\* edited_df['Send'].sum(), line 179
NumSelected(df) == Cardinality({i \in 1..NRows(df) : df.data["Send"][i]})

\* A slip: the column taken from every row, the Send filter forgotten.
PhoneNumbersOfAllRows(df, col) == df.data[col]

\* edited_df[edited_df['Send'] == True][phone_col].tolist(), lines 195 and 202:
\* the rows whose Send cell is True, in order, and of them the column's values
PhoneNumbers(df, col) ==
    LET rows == SelectSeq([i \in 1..NRows(df) |-> i], LAMBDA i : df.data["Send"][i])
    IN  [k \in 1..Len(rows) |-> df.data[col][rows[k]]]

\* [col for col in df_to_edit.columns if col != 'Send'], line 166
PhoneColumnOptions(df) == SelectSeq(df.columns, LAMBDA c : c # "Send")

Range(s) == {s[i] : i \in 1..Len(s)}

\* st.selectbox: a selectbox whose options changed is a new widget and shows
\* its first option; with no option it returns None.
selectbox(options, previous, value) ==
    IF options = <<>> THEN PyNone
    ELSE IF options = previous /\ value \in Range(options) THEN value
    ELSE options[1]

-----------------------------------------------------------------------------
(* The files the user uploads *)

\* The cap on the recipients of one run, lines 180 and 198.
MaxRecipients == 250

NoFile == [present |-> FALSE, name |-> "", readable |-> FALSE, frame |-> EmptyFrame]

File(name, readable, frame) ==
    [present |-> TRUE, name |-> name, readable |-> readable, frame |-> frame]

ShortTable ==
    [columns |-> <<"phone", "alt">>,
     data |-> [phone |-> [i \in 1..EditableRows |-> 910 + i],
               alt   |-> [i \in 1..EditableRows |-> 810 + i]]]

OtherTable ==
    [columns |-> <<"mobile">>,
     data |-> [mobile |-> [i \in 1..EditableRows |-> 710 + i]]]

\* A file that already has a column called Send.
TableWithSend ==
    [columns |-> <<"Send", "phone">>,
     data |-> [Send  |-> [i \in 1..EditableRows |-> FALSE],
               phone |-> [i \in 1..EditableRows |-> 610 + i]]]

\* More rows than the cap allows.
LongTable ==
    [columns |-> <<"phone">>,
     data |-> [phone |-> [i \in 1..(MaxRecipients + RowsOverCap) |-> 5000 + i]]]

FileNames == {"a.csv", "b.csv"}

SessionFiles ==
    {File(n, TRUE, t) : n \in FileNames, t \in {ShortTable, OtherTable, TableWithSend}}
    \cup {File(n, FALSE, EmptyFrame) : n \in FileNames}

LongFiles == {File("long.csv", TRUE, LongTable)}

-----------------------------------------------------------------------------
(* The send loop, lines 213-221 *)

\* The answer to the i-th POST of a run.
OutcomeAt(net, i) == net[((i - 1) % Len(net)) + 1]

\* for i, number in enumerate(phone_numbers): ...  Each number is sent to in
\* turn and its outcome appended to `results`; an exception that
\* send_template_message lets out ends the loop and the run, after the
\* request that met it and before anything is appended for it.
SendLoop(token, phone_id, template_name, variables, numbers, net) ==
    LET call(i) == send_template_message(token, phone_id, Str(numbers[i]), template_name,
                                         variables, OutcomeAt(net, i))
        raising == {i \in 1..Len(numbers) : call(i).raises}
        crash == raising # {}
        last == IF crash THEN CHOOSE i \in raising : \A j \in raising : i <= j
                ELSE Len(numbers)
    IN  [posts   |-> [i \in 1..last |-> call(i).request],
         answers |-> [i \in 1..last |-> OutcomeAt(net, i)],
         results |-> [i \in 1..(IF crash THEN last - 1 ELSE last) |->
                         [phone_number |-> numbers[i], response |-> call(i).value]],
         crashed |-> crash]

NothingSent == [posts |-> <<>>, answers |-> <<>>, results |-> <<>>, crashed |-> FALSE]

\* A slip: the cap off by one.
OverCapOffByOne(n) == n > MaxRecipients + 1

\* line 198
OverCap(n) == n > MaxRecipients

\* The send button's handler, lines 186-234: what it sends and what it reports.
SendHandler(token, phone_id, selected, text, col, edited, drawn, net) ==
    IF selected = Undefined
    THEN [sent |-> NothingSent, numbers |-> <<>>,
          reported |-> {"Please select a template first."}]
    ELSE IF ~drawn \/ IsEmpty(edited)
    THEN [sent |-> NothingSent, numbers |-> <<>>,
          reported |-> {"Please upload a CSV and select recipients."}]
    ELSE IF col = Undefined \/ col = PyNone \/ col = ""
    THEN [sent |-> NothingSent, numbers |-> <<>>,
          reported |-> {"Please select the column containing phone numbers."}]
    ELSE IF OverCap(NumSelected(edited))
    THEN [sent |-> NothingSent, numbers |-> <<>>, reported |-> {"Message not sent."}]
    ELSE LET numbers == PhoneNumbers(edited, col)
             variables == ParseVariables(text)
         IN  IF numbers = <<>>
             THEN [sent |-> NothingSent, numbers |-> numbers,
                   reported |-> {"No recipients selected."}]
             ELSE LET sent == SendLoop(token, phone_id, selected, variables, numbers, net)
                  IN  [sent |-> sent, numbers |-> numbers,
                       reported |-> {"Preparing to send"} \cup
                           (IF sent.crashed THEN {"exception"}
                            ELSE {"Sending Complete: Results"} \cup
                                 (IF \E k \in 1..Len(sent.results) :
                                         ~sent.results[k].response.success
                                  THEN {"Failed to send messages"} ELSE {})) ]

-----------------------------------------------------------------------------
(* The fetch button's handler, lines 118-125 *)

\* A slip: the endpoint called without looking at the credentials.
FetchHandlerUnchecked(token, waba, answer) ==
    LET got == get_message_templates(answer)
    IN  [called |-> TRUE, stored |-> got.value,
         reported |-> ({got.reported} \ {PyNone}) \cup
                      (IF got.value = <<>>
                       THEN {"No approved templates found or there was an error."}
                       ELSE {})]

FetchHandler(token, waba, answer) ==
    IF token # "" /\ waba # ""
    THEN LET got == get_message_templates(answer)
         IN  [called |-> TRUE, stored |-> got.value,
              reported |-> ({got.reported} \ {PyNone}) \cup
                           (IF got.value = <<>>
                            THEN {"No approved templates found or there was an error."}
                            ELSE {})]
    ELSE [called |-> FALSE, stored |-> templates,
          reported |-> {"Please provide API Token and WABA ID"}]

-----------------------------------------------------------------------------
(* The upload handling, lines 146-157 *)

\* A slip: the file read again in every run, whatever its name.
UploadHandlingRereads(file) ==
    IF ~file.present
    THEN [filename |-> uploaded_filename, df |-> df_for_editing, reads |-> 0, reported |-> {}]
    ELSE IF ~file.readable
    THEN [filename |-> uploaded_filename, df |-> EmptyFrame, reads |-> 1,
          reported |-> {"Error reading CSV file"}]
    ELSE IF InsertRaises(file.frame)
    THEN [filename |-> file.name, df |-> EmptyFrame, reads |-> 1,
          reported |-> {"Error reading CSV file"}]
    ELSE [filename |-> file.name, df |-> InsertSend(file.frame), reads |-> 1, reported |-> {}]

UploadHandling(file) ==
    IF ~file.present \/ uploaded_filename = file.name
    THEN [filename |-> uploaded_filename, df |-> df_for_editing, reads |-> 0, reported |-> {}]
    ELSE IF ~file.readable                                 \* pd.read_csv raises
    THEN [filename |-> uploaded_filename, df |-> EmptyFrame, reads |-> 1,
          reported |-> {"Error reading CSV file"}]
    ELSE IF InsertRaises(file.frame)                       \* df.insert raises, after line 151
    THEN [filename |-> file.name, df |-> EmptyFrame, reads |-> 1,
          reported |-> {"Error reading CSV file"}]
    ELSE [filename |-> file.name, df |-> InsertSend(file.frame), reads |-> 1, reported |-> {}]

-----------------------------------------------------------------------------
(* One run of the script, lines 83-242 *)

\* The values the widgets hold.
Widgets ==
    [api_token |-> api_token, phone_number_id |-> phone_number_id, waba_id |-> waba_id,
     selected_template |-> selected_template,
     template_variables_input |-> template_variables_input,
     uploaded_file |-> uploaded_file, phone_col |-> phone_col, editor |-> editor]

\* The script run with the widgets holding w, after the button `click` (or
\* none); `answer` and `net` are what the two endpoints answer if called.
Run(w, click, answer, net) ==
    LET \* lines 118-125
        fetch == IF click = "fetch" THEN FetchHandler(w.api_token, w.waba_id, answer)
                 ELSE [called |-> FALSE, stored |-> templates, reported |-> {}]
        \* lines 127-140: both widgets are drawn only when there are templates; a
        \* widget that was not drawn in the previous run starts from its default
        selected == IF fetch.stored = <<>> THEN Undefined
                    ELSE selectbox(fetch.stored, templates, w.selected_template)
        text == IF fetch.stored = <<>> \/ templates = <<>> THEN <<>>
                ELSE w.template_variables_input
        \* lines 146-157
        up == UploadHandling(w.uploaded_file)
        \* lines 159-181
        drawn == ~IsEmpty(up.df)
        before == IF IsEmpty(df_for_editing) THEN <<>> ELSE PhoneColumnOptions(df_for_editing)
        col == IF drawn THEN selectbox(PhoneColumnOptions(up.df), before, w.phone_col)
               ELSE Undefined
        \* the editor keeps the user's edits for as long as it is given the same frame
        unchecked == IF drawn /\ up.df = df_for_editing THEN w.editor ELSE {}
        edited_df == IF drawn THEN data_editor(up.df, unchecked) ELSE EmptyFrame
        warned == IF drawn /\ NumSelected(edited_df) > MaxRecipients
                  THEN {"You have selected too many recipients."} ELSE {}
        \* lines 186-234
        send == IF click = "send"
                THEN SendHandler(w.api_token, w.phone_number_id, selected, text, col,
                                 edited_df, drawn, net)
                ELSE [sent |-> NothingSent, numbers |-> <<>>, reported |-> {}]
    IN  /\ api_token' = w.api_token
        /\ phone_number_id' = w.phone_number_id
        /\ waba_id' = w.waba_id
        /\ uploaded_file' = w.uploaded_file
        /\ templates' = fetch.stored
        /\ selected_template' = selected
        /\ template_variables_input' = text
        /\ uploaded_filename' = up.filename
        /\ df_for_editing' = up.df
        /\ phone_col' = col
        /\ editor' = unchecked
        /\ clicked' = click
        /\ gets' = IF fetch.called THEN 1 ELSE 0
        /\ listing' = IF fetch.called THEN answer ELSE NoAnswer
        /\ reads' = up.reads
        /\ posts' = send.sent.posts
        /\ results' = send.sent.results
        /\ crashed' = send.sent.crashed
        /\ answers' = send.sent.answers
        /\ phone_numbers' = send.numbers
        /\ messages' = fetch.reported \cup up.reported \cup warned \cup send.reported

NoNet == <<"ok">>

\* The script's first run, when the page is opened.
Init ==
    /\ api_token = ""
    /\ phone_number_id = ""
    /\ waba_id = ""
    /\ templates = <<>>
    /\ selected_template = Undefined
    /\ template_variables_input = <<>>
    /\ uploaded_file = NoFile
    /\ uploaded_filename = Undefined
    /\ df_for_editing = EmptyFrame
    /\ phone_col = Undefined
    /\ editor = {}
    /\ clicked = "none"
    /\ gets = 0
    /\ posts = <<>>
    /\ reads = 0
    /\ messages = {}
    /\ results = <<>>
    /\ crashed = FALSE
    /\ phone_numbers = <<>>
    /\ answers = <<>>
    /\ listing = NoAnswer

-----------------------------------------------------------------------------
(* The user's interactions, each followed by a run of the script *)

EnterToken(Tokens) ==
    \E v \in Tokens : /\ v # api_token
                      /\ Run([Widgets EXCEPT !.api_token = v], "none", NoAnswer, NoNet)

EnterPhoneNumberId(Ids) ==
    \E v \in Ids : /\ v # phone_number_id
                   /\ Run([Widgets EXCEPT !.phone_number_id = v], "none", NoAnswer, NoNet)

EnterWabaId(Ids) ==
    \E v \in Ids : /\ v # waba_id
                   /\ Run([Widgets EXCEPT !.waba_id = v], "none", NoAnswer, NoNet)

ClickFetch(Answers) ==
    \E answer \in Answers : Run(Widgets, "fetch", answer, NoNet)

SelectTemplate ==
    \E name \in Range(templates) :
        /\ name # selected_template
        /\ Run([Widgets EXCEPT !.selected_template = name], "none", NoAnswer, NoNet)

EditVariables(Texts) ==
    \E text \in Texts :
        /\ templates # <<>>
        /\ text # template_variables_input
        /\ Run([Widgets EXCEPT !.template_variables_input = text], "none", NoAnswer, NoNet)

Upload(Files) ==
    \E file \in Files :
        /\ file # uploaded_file
        /\ Run([Widgets EXCEPT !.uploaded_file = file], "none", NoAnswer, NoNet)

RemoveFile ==
    /\ uploaded_file.present
    /\ Run([Widgets EXCEPT !.uploaded_file = NoFile], "none", NoAnswer, NoNet)

SelectPhoneColumn ==
    /\ ~IsEmpty(df_for_editing)
    /\ \E c \in Range(PhoneColumnOptions(df_for_editing)) :
          /\ c # phone_col
          /\ Run([Widgets EXCEPT !.phone_col = c], "none", NoAnswer, NoNet)

\* The user checks or unchecks the Send box of one row.
ToggleSend ==
    /\ ~IsEmpty(df_for_editing)
    /\ \E i \in 1..Min(EditableRows, NRows(df_for_editing)) :
          Run([Widgets EXCEPT !.editor = IF i \in editor THEN editor \ {i} ELSE editor \cup {i}],
              "none", NoAnswer, NoNet)

ClickSend(Nets) ==
    \E net \in Nets : Run(Widgets, "send", NoAnswer, net)

-----------------------------------------------------------------------------
(* Specifications *)

Credentials == {"", "x"}

Statuses == {"APPROVED", "approved", "PENDING"}
TemplateNames == {"t1", "t2"}

\* The entries of a listing: with a name and a status, without a status,
\* and approved without a name.
Entries ==
    [name : TemplateNames, status : Statuses]
    \cup [name : TemplateNames]
    \cup {[status |-> "APPROVED"]}

Listing(data) == [kind |-> "ok", body |-> [data |-> data]]

AllListings ==
    ListingFailures
    \cup {[kind |-> "ok", body |-> <<>>]}
    \cup {Listing(d) : d \in SeqsUpTo(Entries, MaxTemplates)}

SessionListings ==
    ListingFailures
    \cup {Listing(<<>>),
          Listing(<<[name |-> "t1", status |-> "APPROVED"]>>),
          Listing(<<[name |-> "t1", status |-> "PENDING"],
                    [name |-> "t2", status |-> "APPROVED"],
                    [name |-> "t1", status |-> "APPROVED"]>>)}

AllTexts == SeqsUpTo(Chars, MaxInputLen)
SessionTexts == {<<>>, <<"a">>}

Nets == [1..NetPeriod -> Outcomes]

OneListing == {Listing(<<[name |-> "t1", status |-> "APPROVED"]>>)}
ShortFiles == {File("a.csv", TRUE, ShortTable)}

\* The network answers every POST of a run alike.
SessionNets == {<<"ok">>, <<"http_error">>, <<"no_response">>}

\* A session: credentials entered and cleared, templates fetched and
\* selected, a contact file uploaded and removed, rows toggled, messages sent.
Next ==
    \/ EnterToken(Credentials)
    \/ EnterPhoneNumberId(Credentials)
    \/ EnterWabaId(Credentials)
    \/ ClickFetch(SessionListings)
    \/ SelectTemplate
    \/ EditVariables(SessionTexts)
    \/ Upload(ShortFiles \cup {File("b.csv", FALSE, EmptyFrame)})
    \/ RemoveFile
    \/ SelectPhoneColumn
    \/ ToggleSend
    \/ ClickSend(SessionNets)

Spec == Init /\ [][Next]_vars

\* Fetching: every answer of the template endpoint.
NextListing ==
    \/ EnterToken({"x"})
    \/ EnterWabaId({"x"})
    \/ ClickFetch(AllListings)
    \/ SelectTemplate

SpecListing == Init /\ [][NextListing]_vars

\* Uploading: every contact file under every name.
NextUpload ==
    \/ EnterToken({"x"})
    \/ EnterPhoneNumberId({"x"})
    \/ EnterWabaId({"x"})
    \/ ClickFetch(OneListing)
    \/ Upload(SessionFiles)
    \/ RemoveFile
    \/ SelectPhoneColumn
    \/ ToggleSend
    \/ ClickSend(SessionNets)

SpecUpload == Init /\ [][NextUpload]_vars

\* Sending: every combination of answers of the message endpoint.
NextSend ==
    \/ EnterToken({"x"})
    \/ EnterPhoneNumberId({"x"})
    \/ EnterWabaId({"x"})
    \/ ClickFetch(OneListing)
    \/ Upload(ShortFiles)
    \/ SelectPhoneColumn
    \/ ToggleSend
    \/ ClickSend(Nets)

SpecSend == Init /\ [][NextSend]_vars

\* Sending with variables: every text of the text area.
NextVariables ==
    \/ EnterToken({"x"})
    \/ EnterPhoneNumberId({"x"})
    \/ EnterWabaId({"x"})
    \/ ClickFetch(OneListing)
    \/ EditVariables(AllTexts)
    \/ Upload(ShortFiles)
    \/ ToggleSend
    \/ ClickSend(SessionNets)

SpecVariables == Init /\ [][NextVariables]_vars

\* Sending from a contact file with more rows than the cap.
NextCap ==
    \/ EnterToken({"x"})
    \/ EnterPhoneNumberId({"x"})
    \/ EnterWabaId({"x"})
    \/ ClickFetch(OneListing)
    \/ Upload(LongFiles)
    \/ RemoveFile
    \/ ToggleSend
    \/ ClickSend(SessionNets)

SpecCap == Init /\ [][NextCap]_vars

-----------------------------------------------------------------------------
(* Properties *)

\* The rows of the stored dataset whose Send box is checked.
Included == {i \in 1..NRows(df_for_editing) : i \notin editor}

\* The k-th of them, in the dataset's order.
KthIncluded(k) == CHOOSE i \in Included : Cardinality({j \in Included : j <= i}) = k

PhoneOfRow(i) == df_for_editing.data[phone_col][i]

\* The last run entered the send loop.
SendRan == clicked = "send" /\ "Preparing to send" \in messages

\* The token and the phone number ID are entered.
CredentialsEntered == api_token # "" /\ phone_number_id # ""

\* C1: a send with more than 250 rows included issues no POST at all, records
\* no outcome, and reports why nothing was sent.
C1_OverCapSendsNothing ==
    (clicked = "send" /\ Cardinality(Included) > MaxRecipients)
    => /\ posts = <<>>
       /\ results = <<>>
       /\ messages \cap {"Message not sent.", "Please select a template first."} # {}

C1_OverCapRejected ==
    /\ clicked = "send"
    /\ Cardinality(Included) > MaxRecipients
    /\ "Message not sent." \in messages

\* C2: when the sends of a run fail only by a non-2xx response or by getting
\* no response, the run is not aborted: every included row is sent to, and
\* each failure is recorded as that row's outcome with success false.
C2_FailureDoesNotAbort ==
    (/\ SendRan
     /\ CredentialsEntered
     /\ \A k \in 1..Len(answers) : answers[k] \in {"ok", "http_error", "no_response"})
    => /\ ~crashed
       /\ Len(posts) = Cardinality(Included)
       /\ \A k \in 1..Len(answers) :
             answers[k] # "ok" => (k <= Len(results) /\ ~results[k].response.success)

\* C3: whatever the sends of a run meet, the run ends with one outcome per
\* included row, after one POST per included row, and the k-th outcome
\* carries the phone number of the k-th included row.
C3_OneOutcomePerRecipient ==
    (SendRan /\ CredentialsEntered)
    => /\ Len(results) = Cardinality(Included)
       /\ Len(posts) = Cardinality(Included)
       /\ \A k \in 1..Len(results) : results[k].phone_number = PhoneOfRow(KthIncluded(k))

\* C4: a send clicked with a credential empty, no template selected, no
\* dataset, no phone column or no row included issues no POST and reports a
\* message.
C4_ValidationBlocksSend ==
    (/\ clicked = "send"
     /\ \/ api_token = ""
        \/ phone_number_id = ""
        \/ selected_template = Undefined
        \/ IsEmpty(df_for_editing)
        \/ phone_col \in {Undefined, PyNone}
        \/ Included = {})
    => (posts = <<>> /\ messages # {})

\* C5 as stated: a fetch clicked with the token or the WABA ID empty issues
\* no GET, reports the error, and leaves no template offered for selection.
C5_MissingCredentialsOfferNoTemplate ==
    (clicked = "fetch" /\ (api_token = "" \/ waba_id = ""))
    => /\ gets = 0
       /\ "Please provide API Token and WABA ID" \in messages
       /\ templates = <<>>
       /\ selected_template = Undefined

\* C5 as amended: a fetch clicked with the token or the WABA ID empty issues
\* no GET, reports the error, and leaves the stored template list as it was.
C5_MissingCredentialsKeepTemplates ==
    [][(clicked' = "fetch" /\ (api_token' = "" \/ waba_id' = ""))
       => /\ gets' = 0
          /\ "Please provide API Token and WABA ID" \in messages'
          /\ templates' = templates]_vars

C5_FetchWithoutCredentialsAfterFetch ==
    /\ clicked = "fetch"
    /\ api_token = "" \/ waba_id = ""
    /\ templates # <<>>
    /\ selected_template # Undefined

\* The text area holds no non-blank line.
NoVariableGiven ==
    \A i \in 1..Len(template_variables_input) : template_variables_input[i] \in Whitespace

LineStarts(text) == {1} \cup {i + 1 : i \in {j \in 1..Len(text) : text[j] = "\n"}}

LineEnd(text, s) ==
    LET breaks == {e \in s..Len(text) : text[e] = "\n"}
    IN  IF breaks = {} THEN Len(text)
        ELSE (CHOOSE e \in breaks : \A f \in breaks : e <= f) - 1

Inked(text, s) == {i \in s..LineEnd(text, s) : text[i] \notin Whitespace}

NonBlankStarts(text) == {s \in LineStarts(text) : Inked(text, s) # {}}

Trimmed(text, s) ==
    LET ink == Inked(text, s)
    IN  SubSeq(text, CHOOSE i \in ink : \A j \in ink : i <= j,
                     CHOOSE i \in ink : \A j \in ink : i >= j)

ExpectedParameters(text) ==
    LET starts == NonBlankStarts(text)
    IN  [k \in 1..Cardinality(starts) |->
            Trimmed(text, CHOOSE s \in starts : Cardinality({t \in starts : t <= s}) = k)]

ParameterTexts(post) ==
    LET c == post.data.template.components
    IN  IF c = <<>> THEN <<>>
        ELSE [i \in 1..Len(c[1].parameters) |-> c[1].parameters[i].text]

ListedWithNames ==
    /\ gets = 1
    /\ listing.kind = "ok"
    /\ "data" \in DOMAIN listing.body
    /\ \A i \in 1..Len(listing.body["data"]) : "name" \in DOMAIN listing.body["data"][i]

\* C8: after a successful listing, the stored templates are the names of the
\* entries whose status is exactly "APPROVED", in the order of the listing.
C8_OnlyApprovedInOrder ==
    ListedWithNames
    => LET data == listing.body["data"]
           approved == {i \in 1..Len(data) :
                           "status" \in DOMAIN data[i] /\ data[i]["status"] = "APPROVED"}
       IN  /\ Len(templates) = Cardinality(approved)
           /\ \A i \in approved :
                 templates[Cardinality({j \in approved : j <= i})] = data[i]["name"]

C8_ListedMixedStatuses ==
    /\ ListedWithNames
    /\ templates # <<>>
    /\ \E i \in 1..Len(listing.body["data"]) :
          /\ "status" \in DOMAIN listing.body["data"][i]
          /\ listing.body["data"][i]["status"] = "approved"

\* The last run computed the recipient list of line 202.
RecipientsComputed ==
    /\ clicked = "send"
    /\ messages \cap {"Preparing to send", "No recipients selected."} # {}

\* C9: the recipient list computed by a send is the phone column's values of
\* the rows whose Send box is checked, in the dataset's order; with one box
\* checked it is that row's phone value alone.
C9_RecipientsAreIncludedRows ==
    RecipientsComputed
    => /\ Len(phone_numbers) = Cardinality(Included)
       /\ \A k \in 1..Len(phone_numbers) : phone_numbers[k] = PhoneOfRow(KthIncluded(k))
       /\ \A r \in 1..NRows(df_for_editing) :
             Included = {r} => phone_numbers = <<PhoneOfRow(r)>>

C9_OneRowToggledBackOn ==
    /\ RecipientsComputed
    /\ NRows(df_for_editing) = EditableRows
    /\ Included = {EditableRows}
    /\ Len(phone_numbers) = 1

\* C10: a run in which the uploaded file has the name of the last loaded one
\* reads no file and leaves the stored dataset as it was; the stored dataset
\* changes only in a run in which an uploaded file of another name is read,
\* and every Send box is then checked.
C10_SameNameKeepsDataset ==
    [][/\ (uploaded_file'.present /\ uploaded_file'.name = uploaded_filename)
          => (df_for_editing' = df_for_editing /\ reads' = 0)
       /\ df_for_editing' # df_for_editing
          => /\ uploaded_file'.present
             /\ uploaded_file'.name # uploaded_filename
             /\ reads' = 1
             /\ editor' = {}]_vars

C10_SameNameOtherContents ==
    /\ uploaded_file.present
    /\ uploaded_file.name = uploaded_filename
    /\ uploaded_file.readable
    /\ ~InsertRaises(uploaded_file.frame)
    /\ ~IsEmpty(df_for_editing)
    /\ df_for_editing # InsertSend(uploaded_file.frame)
    /\ reads = 0

====
